---------------------------- MODULE Spec2Model ----------------------------
(***************************************************************************)
(* A model of PyFiberModes' root search (solver/base_solver.py) and of the *)
(* step-index layer routines (fiber_geometry/stepindex.py).                *)
(*                                                                         *)
(* Numbers.  The scan variable (an effective index) is an integer count of *)
(* grid units; delta is delta0 / 10^level, exact on the inputs used.  A    *)
(* value of the characteristic function is an exact fraction <<num, den>>; *)
(* den = 0 stands for the unbounded value met at a pole.                   *)
(***************************************************************************)
EXTENDS Integers, Sequences, FiniteSets, TLC

VARIABLES
    \* ---- BaseSolver.find_function_first_root: arguments
    fn,          \* the characteristic function: [s, roots, poles]
    lowbound,    \* scan start
    highbound,   \* scan end; 0 is the falsy value (None or 0): no bound
    ipoints,     \* the list of candidate points (popped in place)
    delta0,      \* delta as passed by the caller
    level,       \* number of "delta /= 10" executed: delta = delta0 / 10^level
    maxiter,     \* maxiter (finite value)
    maxiterInf,  \* TRUE while maxiter is still numpy.inf (the default)
    \* ---- find_function_first_root: locals and position
    pc,          \* "head" | "for" | "done" | "raised"
    i,           \* loop index of the for loop
    a, fa, b, fb, z, fz,
    ret,         \* [nan |-> BOOLEAN, val |-> position]
    cause,       \* which statement ended the call
    \* ---- observation of one call (history, read by the properties only)
    brk,         \* the last bracket refined: [n, a, b, z, fa, fb, fz], n counting them
    missed,      \* a sample the scan should have returned was passed over
    passes,      \* [level, maxiter] of every completed for loop, in order
    \* ---- the lists behind ipoints, over successive calls
    defaultIpoints, \* the list object of the default `ipoints: list = []`
    omitted,     \* the call in progress omitted ipoints: ipoints is that object
    supplied,    \* the contents of ipoints when the call began
    taken,       \* history: the points this call popped from ipoints, in order
    evaluated,   \* history: those of them the function was evaluated at
    ncalls,      \* number of calls begun
    \* ---- enumeration of the modes of each family by repeated root searches
    fams,        \* the characteristic function of each family enumerated
    fam,         \* index of the family being enumerated (0: no enumeration)
    topbound,    \* the highest layer index, where each family's scan starts
    modes,       \* effective indices found for this family, by radial order
    allModes,    \* the overall list of modes: [fam, order, neff]
    \* ---- StepIndex.Psi and StepIndex.lpConstants on one layer
    lpArgs,      \* [layer, radius, neff, wl, nu, C]
    lpPc,        \* "psi" | "lp" | "done" | "raised" | "idle"
    psiOut,      \* (psi, psip) returned by Psi
    lpOut,       \* (term_0, term_1) returned by lpConstants
    \* --- StepIndex.EH_fields ---
    selfLayer,   \* the StepIndex object: [n, rin, rout]
    selfC,       \* its attribute self.C (<<>> while it is not set)
    threads,     \* per caller: [pc, c, EH, in, q, k, err, budget, mreg, freg, solve]
    seen         \* history: the finished evaluations, [c, in, err, EH], in order

rsVars == <<fn, lowbound, highbound, ipoints, delta0, level, maxiter, maxiterInf,
            pc, i, a, fa, b, fb, z, fz, ret, cause, brk, missed, passes,
            defaultIpoints, omitted, supplied, taken, evaluated, ncalls>>

callVars == <<defaultIpoints, omitted, supplied, taken, evaluated, ncalls>>

enumVars == <<fams, fam, topbound, modes, allModes>>

lpVars == <<lpArgs, lpPc, psiOut, lpOut>>

ehVars == <<selfLayer, selfC, threads, seen>>

vars == <<rsVars, enumVars, lpVars, ehVars>>

-----------------------------------------------------------------------------
(* Program constants of find_function_first_root.                          *)
IterCap == 100
DeltaDivisor == 10

(* A 64-bit float delta divided by ten again and again becomes so small    *)
(* that (highbound - lowbound) / delta is infinite and int() raises         *)
(* OverflowError (about 310 divisions from 0.25).  UnderflowLevel stands    *)
(* for that count.                                                          *)
UnderflowLevel == 4

(* Radial orders enumerated per family.                                     *)
MaxOrders == 3

-----------------------------------------------------------------------------
(* Exact fractions.                                                         *)
Abs(x) == IF x < 0 THEN -x ELSE x

Sgn(x) == IF x > 0 THEN 1 ELSE IF x < 0 THEN -1 ELSE 0

RECURSIVE Pow10(_)
Pow10(k) == IF k = 0 THEN 1 ELSE DeltaDivisor * Pow10(k - 1)

\* Python's int() of a quotient: truncation toward zero.
Trunc(n, d) == Sgn(n) * Sgn(d) * (Abs(n) \div Abs(d))

RECURSIVE SetProd(_, _)
SetProd(S, x) ==
    IF S = {} THEN 1
    ELSE LET r == CHOOSE r \in S : TRUE IN (x - r) * SetProd(S \ {r}, x)

\* function(x): s * prod (x - root) / prod (x - pole)
F(f, x) == <<f.s * SetProd(f.roots, x), SetProd(f.poles, x)>>

IsZero(v) == v[1] = 0 /\ v[2] # 0
IsPos(v) == v[2] # 0 /\ v[1] * v[2] > 0
IsNeg(v) == v[2] # 0 /\ v[1] * v[2] < 0

\* abs(v) < abs(w)
AbsLess(v, w) == Abs(v[1]) * Abs(w[2]) < Abs(w[1]) * Abs(v[2])

-----------------------------------------------------------------------------
(* find_function_first_root, statement by statement.                        *)

\* line 57: the sign-change test
SignChange(va, vb) == (IsPos(va) /\ IsNeg(vb)) \/ (IsNeg(va) /\ IsPos(vb))

\* line 58: brentq converges onto a point of the bracket where the function
\* changes sign: a root, or a pole.  Which one is not determined here.
Brentq(f, x, y) ==
    {p \in f.roots \cup f.poles : (x < p /\ p < y) \/ (y < p /\ p < x)}

AcceptNoTest(va, vz, vb) == TRUE

\* line 61: abs(fa) > abs(fz) < abs(fb)
Accept(va, vz, vb) == AbsLess(vz, va) /\ AbsLess(vz, vb)

\* lines 47-48: the sample lies beyond highbound
PastBound(x, lo, hi) ==
    hi # 0 /\ ((x > hi /\ hi > lo) \/ (x < hi /\ hi < lo))

Delta == delta0 \div Pow10(level)

NaN == [nan |-> TRUE, val |-> 0]
Val(x) == [nan |-> FALSE, val |-> x]

NoBrk == [n |-> 0, a |-> 0, b |-> 0, z |-> 0,
          fa |-> <<0, 1>>, fb |-> <<0, 1>>, fz |-> <<0, 1>>]

ShouldReduceBelowTen(hi, m) == hi # 0 /\ m < DeltaDivisor

\* lines 67-68: the outer loop goes round again with delta / 10
ShouldReduce(hi, m) == hi # 0 /\ m < IterCap

NextSampleBackward(pts, x, d) == IF pts # <<>> THEN Head(pts) ELSE x - d

\* line 46: the next sample
NextSample(pts, x, d) == IF pts # <<>> THEN Head(pts) ELSE x + d

\* lines 42 and 54: the sample is a root as it stands
SampleIsRootNever(v) == FALSE

SampleIsRoot(v) == IsZero(v)

\* what the scan owes a sample x with value v taken after (xa, va): returning
\* it if v = 0, returning the refined point nz if the bracket attenuates
Owed(v, va, sampled, vz) ==
    \/ IsZero(v)
    \/ /\ sampled
       /\ SignChange(va, v)
       /\ AbsLess(vz, va) /\ AbsLess(vz, v)

\* lines 35-43 (and the construction of range() on line 45)
LoopHead ==
    /\ pc = "head"
    /\ LET overflow == ipoints = <<>> /\ highbound # 0 /\ level > UnderflowLevel
           m == IF ipoints # <<>> THEN Len(ipoints)
                ELSE IF highbound # 0 /\ ~overflow
                     THEN Trunc((highbound - lowbound) * Pow10(level), delta0)
                     ELSE maxiter
           inf == maxiterInf /\ ipoints = <<>> /\ highbound = 0
           v == F(fn, lowbound)
       IN  IF overflow
           THEN /\ pc' = "raised"
                /\ cause' = "OverflowError"
                /\ UNCHANGED <<maxiter, maxiterInf, a, fa, i, ret, missed>>
           ELSE /\ maxiter' = m
                /\ maxiterInf' = inf
                /\ a' = lowbound
                /\ fa' = v
                /\ IF SampleIsRoot(v)
                   THEN /\ pc' = "done"
                        /\ ret' = Val(lowbound)
                        /\ cause' = "lowzero"
                        /\ i' = i
                   ELSE IF inf
                   THEN /\ pc' = "raised"
                        /\ cause' = "TypeError"
                        /\ UNCHANGED <<i, ret>>
                   ELSE /\ pc' = "for"
                        /\ i' = 1
                        /\ UNCHANGED <<ret, cause>>
                /\ missed' = (missed \/ (Owed(v, v, FALSE, v)
                                         /\ ~(pc' = "done" /\ ret' = Val(lowbound))))
    /\ UNCHANGED <<fn, lowbound, highbound, ipoints, delta0, level,
                   b, fb, z, fz, brk, passes>>
    /\ UNCHANGED <<enumVars, lpVars, ehVars, callVars>>

\* line 46 without the removal: the candidate is read and left in the list
PopKeep(pts) == pts

\* line 46, ipoints.pop(0) if ipoints: the list after it
Pop(pts) == IF pts # <<>> THEN Tail(pts) ELSE pts

\* lines 45-65: one iteration of the for loop
ForStep ==
    /\ pc = "for"
    /\ i <= maxiter
    /\ LET nb == NextSample(ipoints, a, Delta)
           vb == F(fn, nb)
       IN  /\ b' = nb
           /\ ipoints' = Pop(ipoints)
           /\ defaultIpoints' = IF omitted THEN ipoints' ELSE defaultIpoints
           /\ taken' = IF ipoints # <<>> THEN Append(taken, nb) ELSE taken
           /\ evaluated' = IF ipoints # <<>> /\ ~PastBound(nb, lowbound, highbound)
                           THEN Append(evaluated, nb) ELSE evaluated
           /\ IF PastBound(nb, lowbound, highbound)
              THEN /\ pc' = "done"
                   /\ ret' = NaN
                   /\ cause' = "pastbound"
                   /\ UNCHANGED <<fb, z, fz, a, fa, i, brk, missed>>
              ELSE /\ fb' = vb
                   /\ IF SampleIsRoot(vb)
                      THEN /\ pc' = "done"
                           /\ ret' = Val(nb)
                           /\ cause' = "samplezero"
                           /\ UNCHANGED <<z, fz, a, fa, i, brk>>
                      ELSE IF SignChange(fa, vb)
                      THEN \E nz \in Brentq(fn, a, nb) :
                             LET vz == F(fn, nz)
                             IN  /\ z' = nz
                                 /\ fz' = vz
                                 /\ brk' = [n |-> brk.n + 1, a |-> a, b |-> nb,
                                            z |-> nz, fa |-> fa, fb |-> vb,
                                            fz |-> vz]
                                 /\ IF Accept(fa, vz, vb)
                                    THEN /\ pc' = "done"
                                         /\ ret' = Val(nz)
                                         /\ cause' = "bracket"
                                         /\ UNCHANGED <<a, fa, i>>
                                    ELSE /\ a' = nb
                                         /\ fa' = vb
                                         /\ i' = i + 1
                                         /\ UNCHANGED <<pc, ret, cause>>
                      ELSE /\ a' = nb
                           /\ fa' = vb
                           /\ i' = i + 1
                           /\ UNCHANGED <<pc, ret, cause, z, fz, brk>>
                   /\ missed' =
                        (missed \/ (Owed(vb, fa, brk'.n # brk.n, fz')
                                    /\ ~(pc' = "done"
                                         /\ ret' = Val(IF IsZero(vb) THEN nb ELSE z'))))
    /\ UNCHANGED <<fn, lowbound, highbound, delta0, level, maxiter, maxiterInf,
                   passes, omitted, supplied, ncalls>>
    /\ UNCHANGED <<enumVars, lpVars, ehVars>>

\* lines 67-73: the for loop is exhausted
ForEnd ==
    /\ pc = "for"
    /\ i > maxiter
    /\ passes' = Append(passes, [level |-> level, maxiter |-> maxiter])
    /\ IF ShouldReduce(highbound, maxiter)
       THEN /\ level' = level + 1
            /\ pc' = "head"
            /\ UNCHANGED <<ret, cause>>
       ELSE /\ pc' = "done"
            /\ ret' = NaN
            /\ cause' = "maxiter"
            /\ level' = level
    /\ UNCHANGED <<fn, lowbound, highbound, ipoints, delta0, maxiter, maxiterInf,
                   i, a, fa, b, fb, z, fz, brk, missed>>
    /\ UNCHANGED <<enumVars, lpVars, ehVars, callVars>>

-----------------------------------------------------------------------------
(* Floating-point values of the layer routines, as exact fractions <<n, d>> *)
(* in lowest terms with d >= 0.  d = 0 holds the three special values of a  *)
(* float: <<1, 0>> is +inf, <<-1, 0>> is -inf and <<0, 0>> is nan.          *)

(* An operation computes on the values of its operands: {e : x \in {p}}    *)
(* evaluates the operand p once and Only takes the one result.              *)
Only(S) == CHOOSE v \in S : TRUE

RECURSIVE Gcd(_, _)
Gcd(x, y) == IF y = 0 THEN x ELSE Gcd(y, x % y)

RNorm(p, q) ==
    Only({IF d = 0 THEN <<Sgn(n), 0>>
          ELSE LET g == Gcd(Abs(n), Abs(d))
               IN  <<Sgn(d) * (n \div g), Abs(d) \div g>> : n \in {p}, d \in {q}})

R(n) == <<n, 1>>
RZero == <<0, 1>>
ROne == <<1, 1>>
RInf == <<1, 0>>
RNan == <<0, 0>>

RIsZero(x) == x[1] = 0 /\ x[2] # 0
RIsFinite(x) == x[2] # 0

RNeg(x) == <<-x[1], x[2]>>

\* x * y, cancelling across before multiplying
RMul(p, q) ==
    Only({IF x[2] = 0 \/ y[2] = 0 \/ x[1] = 0 \/ y[1] = 0
          THEN RNorm(Sgn(x[1]) * Sgn(y[1]), Sgn(x[2]) * Sgn(y[2]))
          ELSE LET g1 == Gcd(Abs(x[1]), y[2])
                   g2 == Gcd(Abs(y[1]), x[2])
               IN  <<(x[1] \div g1) * (y[1] \div g2),
                     (x[2] \div g2) * (y[2] \div g1)>> : x \in {p}, y \in {q}})

RAdd(p, q) ==
    Only({IF x[2] = 0 /\ y[2] = 0
          THEN (IF x = y THEN x ELSE RNan)
          ELSE IF x[2] = 0 THEN x
          ELSE IF y[2] = 0 THEN y
          ELSE LET g == Gcd(x[2], y[2])
               IN  RNorm(x[1] * (y[2] \div g) + y[1] * (x[2] \div g),
                         (x[2] \div g) * y[2]) : x \in {p}, y \in {q}})

RSub(x, y) == RAdd(x, RNeg(y))

\* 1 / x as numpy.float64 computes it: 1 / 0 is inf (with a warning only)
RInv(p) ==
    Only({IF RIsZero(x) THEN RInf
          ELSE IF x[2] = 0 THEN (IF x[1] = 0 THEN RNan ELSE RZero)
          ELSE RNorm(Sgn(x[1]) * x[2], Abs(x[1])) : x \in {p}})

\* x / y between numpy.float64 values (the results of scipy.special)
RDiv(x, y) == RMul(x, RInv(y))

\* math.sqrt on the grid of the model: the integer square root
RECURSIVE IsqrtFrom(_, _)
IsqrtFrom(n, r) == IF (r + 1) * (r + 1) > n THEN r ELSE IsqrtFrom(n, r + 1)
Isqrt(n) == IsqrtFrom(n, 0)

-----------------------------------------------------------------------------
(* scipy.special at the integer arguments u the model meets.  The values    *)
(* for u > 0 are small fractions chosen to satisfy the identities the true  *)
(* functions satisfy: the cross products                                    *)
(*    J1(u) Y0(u) - J0(u) Y1(u) = 2 / (pi u),                               *)
(*    I0(u) K1(u) + I1(u) K0(u) = 1 / u,                                    *)
(* the three-term recurrences for the orders above 1 and the derivative     *)
(* formulas.  At u = 0 they are the limits scipy returns.                   *)
Pi == <<22, 7>>

BesselJ0(u) == IF u = 0 THEN ROne ELSE RNorm(1, u + 1)
BesselJ1(u) == IF u = 0 THEN RZero ELSE RNorm(1, 2)
BesselY0(u) == IF u = 0 THEN RNeg(RInf) ELSE RNorm(1, u)
BesselY1(u) ==
    IF u = 0 THEN RNeg(RInf)
    ELSE RDiv(RSub(RMul(BesselJ1(u), BesselY0(u)), RDiv(R(2), RMul(Pi, R(u)))),
              BesselJ0(u))
BesselI0(u) == IF u = 0 THEN ROne ELSE R(u + 1)
BesselI1(u) == IF u = 0 THEN RZero ELSE ROne
BesselK0(u) == IF u = 0 THEN RInf ELSE RNorm(1, 2 * u)
BesselK1(u) ==
    IF u = 0 THEN RInf
    ELSE RDiv(RSub(RNorm(1, u), RMul(BesselI1(u), BesselK0(u))), BesselI0(u))

RECURSIVE jn(_, _), yn(_, _), iv(_, _), kn(_, _)
jn(nu, u) ==
    IF nu = 0 THEN BesselJ0(u)
    ELSE IF nu = 1 THEN BesselJ1(u)
    ELSE IF u = 0 THEN RZero
    ELSE RSub(RMul(RNorm(2 * (nu - 1), u), jn(nu - 1, u)), jn(nu - 2, u))
yn(nu, u) ==
    IF nu = 0 THEN BesselY0(u)
    ELSE IF nu = 1 THEN BesselY1(u)
    ELSE IF u = 0 THEN RNeg(RInf)
    ELSE RSub(RMul(RNorm(2 * (nu - 1), u), yn(nu - 1, u)), yn(nu - 2, u))
iv(nu, u) ==
    IF nu = 0 THEN BesselI0(u)
    ELSE IF nu = 1 THEN BesselI1(u)
    ELSE IF u = 0 THEN RZero
    ELSE RSub(iv(nu - 2, u), RMul(RNorm(2 * (nu - 1), u), iv(nu - 1, u)))
kn(nu, u) ==
    IF nu = 0 THEN BesselK0(u)
    ELSE IF nu = 1 THEN BesselK1(u)
    ELSE IF u = 0 THEN RInf
    ELSE RAdd(kn(nu - 2, u), RMul(RNorm(2 * (nu - 1), u), kn(nu - 1, u)))

\* first derivatives: J0' = -J1, Jv' = J(v-1) - (v/u) Jv, and the like
jvp(nu, u) ==
    IF nu = 0 THEN RNeg(jn(1, u))
    ELSE IF u = 0 THEN (IF nu = 1 THEN RNorm(1, 2) ELSE RZero)
    ELSE RSub(jn(nu - 1, u), RMul(RNorm(nu, u), jn(nu, u)))
yvp(nu, u) ==
    IF u = 0 THEN RInf
    ELSE IF nu = 0 THEN RNeg(yn(1, u))
    ELSE RSub(yn(nu - 1, u), RMul(RNorm(nu, u), yn(nu, u)))
ivp(nu, u) ==
    IF nu = 0 THEN iv(1, u)
    ELSE IF u = 0 THEN (IF nu = 1 THEN RNorm(1, 2) ELSE RZero)
    ELSE RSub(iv(nu - 1, u), RMul(RNorm(nu, u), iv(nu, u)))
kvp(nu, u) ==
    IF u = 0 THEN RNeg(RInf)
    ELSE IF nu = 0 THEN RNeg(kn(1, u))
    ELSE RNeg(RAdd(kn(nu - 1, u), RMul(RNorm(nu, u), kn(nu, u))))

-----------------------------------------------------------------------------
(* StepIndex: a layer is [n, rin, rout]: the refractive index of its        *)
(* material at the wavelength and its radii (self.radius_in,                *)
(* self.radius_out).  A wavelength is [k0]: its wavenumber.                 *)

\* get_index: None (here 0) outside the layer
get_index(layer, radius) ==
    IF layer.rin <= Abs(radius) /\ Abs(radius) <= layer.rout THEN layer.n ELSE 0

get_maximum_index(layer) == layer.n

\* get_U_W_parameter: k0 * radius * sqrt(abs(n^2 - neff^2))
get_U_W_parameter(layer, radius, neff, wl) ==
    wl.k0 * radius * Isqrt(Abs(get_index(layer, radius) * get_index(layer, radius)
                            - neff * neff))

\* "refractive_index**2" with refractive_index None raises TypeError
IndexUndefined(layer, radius) == get_index(layer, radius) = 0

(* The basis pair a routine selects: "JY" is the oscillatory pair (jn, yn), *)
(* "IK" the evanescent pair (iv, kn).  One operator per test in the source. *)
\* Psi, line 115
PsiRegime(layer, neff) == IF neff < get_maximum_index(layer) THEN "JY" ELSE "IK"
\* lpConstants, line 148
lpRegime(layer, neff) == IF neff < get_maximum_index(layer) THEN "JY" ELSE "IK"
\* EH_fields, line 229
EHRegime(layer, neff) == IF neff < get_maximum_index(layer) THEN "JY" ELSE "IK"
\* vConstants, line 273, with the test turned into neff <= maximum_index
vRegimeTie(layer, neff) == IF neff <= get_maximum_index(layer) THEN "JY" ELSE "IK"
\* vConstants, line 273
vRegime(layer, neff) == IF neff < get_maximum_index(layer) THEN "JY" ELSE "IK"
\* tetmConstants, line 334
tetmRegime(layer, neff) == IF neff < get_maximum_index(layer) THEN "JY" ELSE "IK"

\* Psi, lines 107-131
Psi(layer, radius, neff, wl, nu, C) ==
    LET u == get_U_W_parameter(layer, radius, neff, wl)
    IN  IF PsiRegime(layer, neff) = "JY"
        THEN IF ~RIsZero(C[2])
             THEN <<RAdd(RMul(C[1], jn(nu, u)), RMul(C[2], yn(nu, u))),
                    RAdd(RMul(RMul(R(u), C[1]), jvp(nu, u)), RMul(C[2], yvp(nu, u)))>>
             ELSE <<RMul(C[1], jn(nu, u)),
                    RMul(RMul(R(u), C[1]), jvp(nu, u))>>
        ELSE IF ~RIsZero(C[2])
             THEN <<RAdd(RMul(C[1], iv(nu, u)), RMul(C[2], kn(nu, u))),
                    RAdd(RMul(RMul(R(u), C[1]), ivp(nu, u)), RMul(C[2], kvp(nu, u)))>>
             ELSE <<RMul(C[1], iv(nu, u)),
                    RMul(RMul(R(u), C[1]), ivp(nu, u))>>

HalfPi == RMul(Pi, RNorm(1, 2))

\* lpConstants, lines 140-156
lpConstants(layer, radius, neff, wl, nu, A) ==
    LET u == get_U_W_parameter(layer, radius, neff, wl)
    IN  IF lpRegime(layer, neff) = "JY"
        THEN <<RMul(HalfPi, RSub(RMul(RMul(R(u), yvp(nu, u)), A[1]),
                                 RMul(yn(nu, u), A[2]))),
               RMul(HalfPi, RSub(RMul(jn(nu, u), A[2]),
                                 RMul(RMul(R(u), jvp(nu, u)), A[1])))>>
        ELSE <<RSub(RMul(RMul(R(u), kvp(nu, u)), A[1]), RMul(kn(nu, u), A[2])),
               RSub(RMul(iv(nu, u), A[2]), RMul(RMul(R(u), ivp(nu, u)), A[1]))>>

-----------------------------------------------------------------------------
(* numpy arrays: a vector is a sequence of cells, a cell the sequence of    *)
(* the values of one row: one value for a 1-D array, two for an array of    *)
(* shape (n, 2).                                                            *)
CAdd(p, q) == Only({[k \in 1..Len(x) |-> RAdd(x[k], y[k])] : x \in {p}, y \in {q}})
CSub(p, q) == Only({[k \in 1..Len(x) |-> RSub(x[k], y[k])] : x \in {p}, y \in {q}})
CScale(p, q) == Only({[k \in 1..Len(x) |-> RMul(r, x[k])] : r \in {p}, x \in {q}})
Zeros(n, w) == [r \in 1..n |-> [k \in 1..w |-> RZero]]

\* the matrix m without row 1 and column j
Minor(m, j) ==
    [r \in 1..(Len(m) - 1) |->
        [k \in 1..(Len(m) - 1) |-> m[r + 1][IF k < j THEN k ELSE k + 1]]]

RECURSIVE RSum(_, _)
RSum(f0, n) ==
    Only({IF n = 0 THEN RZero ELSE RAdd(RSum(f, n - 1), f[n]) : f \in {f0}})

RECURSIVE Det(_)
Det(a0) ==
    Only({IF Len(m) = 1 THEN m[1][1]
          ELSE RSum([j \in 1..Len(m) |->
                        IF RIsZero(m[1][j]) THEN RZero
                        ELSE RMul(IF j % 2 = 1 THEN m[1][j] ELSE RNeg(m[1][j]),
                                  Det(Minor(m, j)))],
                    Len(m)) : m \in {a0}})

\* numpy.linalg.solve(m, rhs): the exact solution, column by column of rhs;
\* a singular m raises LinAlgError
Solve(a0, b0) ==
    Only({LET n == Len(m)
              w == Len(rhs[1])
              WithCol(j, k) == [r \in 1..n |-> [q \in 1..n |->
                                  IF q = j THEN rhs[r][k] ELSE m[r][q]]]
          IN  IF RIsZero(d)
              THEN [err |-> "LinAlgError", val |-> Zeros(n, w)]
              ELSE [err |-> "none",
                    val |-> [j \in 1..n |-> [k \in 1..w |->
                                RDiv(Det(WithCol(j, k)), d)]]] :
          m \in {a0}, rhs \in {b0}, d \in {Det(a0)}})

-----------------------------------------------------------------------------
(* PyFiberModes.constants: the vacuum impedance and its inverse.            *)
eta0 == <<377, 1>>
Y0 == RInv(eta0)

\* scipy.special order-0 and order-1 shorthands
j0(u) == jn(0, u)
y0(u) == yn(0, u)
j1(u) == jn(1, u)
y1(u) == yn(1, u)
i0(u) == iv(0, u)
k0(u) == kn(0, u)
i1(u) == iv(1, u)
k1(u) == kn(1, u)

(* A call of EH_fields is c = [rin, rout, nu, neff, wl, TM]; EH is the      *)
(* caller's buffer.  k0, the radii and neff are Python floats, and so is    *)
(* u (math.sqrt returns one): dividing by u = 0.0 raises ZeroDivisionError. *)
(* A routine's outcome is [err, val], err = "none" when it returns.         *)
Raise(e, v) == [err |-> e, val |-> v]
Return(v) == [err |-> "none", val |-> v]

\* vConstants, lines 257-307
vConstants(layer, c, EH) ==
    IF IndexUndefined(layer, c.rout) \/ IndexUndefined(layer, c.rin)
    THEN Raise("TypeError", EH)
    ELSE
    LET n == get_maximum_index(layer)
        u == get_U_W_parameter(layer, c.rout, c.neff, c.wl)
        urp == get_U_W_parameter(layer, c.rin, c.neff, c.wl)
        osc == vRegime(layer, c.neff) = "JY"
        B1 == IF osc THEN jn(c.nu, u) ELSE iv(c.nu, u)
        B2 == IF osc THEN yn(c.nu, u) ELSE kn(c.nu, u)
        F1 == IF osc THEN RDiv(jn(c.nu, urp), B1)
              ELSE IF u # 0 THEN RDiv(iv(c.nu, urp), B1) ELSE ROne
        F2 == IF osc THEN RDiv(yn(c.nu, urp), B2) ELSE RDiv(kn(c.nu, urp), B2)
        F3 == IF osc THEN RDiv(jvp(c.nu, urp), B1)
              ELSE IF u # 0 THEN RDiv(ivp(c.nu, urp), B1) ELSE ROne
        F4 == IF osc THEN RDiv(yvp(c.nu, urp), B2) ELSE RDiv(kvp(c.nu, urp), B2)
        c1 == IF osc THEN RNorm(c.wl.k0 * c.rout, u)
              ELSE RNorm(-(c.wl.k0 * c.rout), u)
        c2 == RMul(RNorm(c.neff * c.nu, urp), c1)
        c3 == RMul(eta0, c1)
        c4 == RMul(RMul(Y0, R(n * n)), c1)
        m == << <<F1, F2, RZero, RZero>>,
                <<RZero, RZero, F1, F2>>,
                <<RMul(F1, c2), RMul(F2, c2), RNeg(RMul(F3, c3)), RNeg(RMul(F4, c3))>>,
                <<RMul(F3, c4), RMul(F4, c4), RNeg(RMul(F1, c2)), RNeg(RMul(F2, c2))>> >>
    IN  IF u = 0 \/ urp = 0
        THEN Raise("ZeroDivisionError", EH)
        ELSE Solve(m, EH)

\* tetmConstants, lines 318-358; cc is the argument c, idx the argument idx
tetmConstants(layer, c, EH, cc, idx) ==
    IF IndexUndefined(layer, c.rout) \/ IndexUndefined(layer, c.rin)
    THEN Raise("TypeError", EH)
    ELSE
    LET n == get_maximum_index(layer)
        u == get_U_W_parameter(layer, c.rout, c.neff, c.wl)
        urp == get_U_W_parameter(layer, c.rin, c.neff, c.wl)
        osc == tetmRegime(layer, c.neff) = "JY"
        B1 == IF osc THEN j0(u) ELSE i0(u)
        B2 == IF osc THEN y0(u) ELSE k0(u)
        F1 == IF osc THEN RDiv(j0(urp), B1) ELSE RDiv(i0(urp), B1)
        F2 == IF osc THEN RDiv(y0(urp), B2) ELSE RDiv(k0(urp), B2)
        F3 == IF osc THEN RDiv(RNeg(j1(urp)), B1) ELSE RDiv(i1(urp), B1)
        F4 == IF osc THEN RDiv(RNeg(y1(urp)), B2) ELSE RDiv(RNeg(k1(urp)), B2)
        c1 == IF osc THEN RNorm(c.wl.k0 * c.rout, u)
              ELSE RNorm(-(c.wl.k0 * c.rout), u)
        c3 == RMul(cc, c1)
        m == << <<F1, F2>>, <<RMul(F3, c3), RMul(F4, c3)>> >>
    IN  IF u = 0
        THEN Raise("ZeroDivisionError", EH)
        ELSE Solve(m, <<EH[idx[1] + 1], EH[idx[2] + 1]>>)

\* lines 182-188 with the unit excitations written to the rows of the
\* singular basis function (rows 1 and 3)
InnermostCSingular(nu, TM) ==
    IF nu = 0
    THEN IF TM THEN << <<RZero>>, <<ROne>>, <<RZero>>, <<RZero>> >>
         ELSE << <<RZero>>, <<RZero>>, <<RZero>>, <<ROne>> >>
    ELSE << <<RZero, RZero>>, <<ROne, RZero>>,
            <<RZero, RZero>>, <<RZero, ROne>> >>

\* EH_fields, lines 180-188: self.C of the innermost layer (radius_in == 0)
InnermostC(nu, TM) ==
    IF nu = 0
    THEN IF TM THEN << <<ROne>>, <<RZero>>, <<RZero>>, <<RZero>> >>
         ELSE << <<RZero>>, <<RZero>>, <<ROne>>, <<RZero>> >>
    ELSE << <<ROne, RZero>>, <<RZero, RZero>>,
            <<RZero, ROne>>, <<RZero, RZero>> >>

\* EH_fields, lines 171-226: the coefficient vector the call computes, and
\* whether line 191 had rebound self.C to numpy.zeros(4) before a raise
Computed(layer, c, EH) ==
    IF IndexUndefined(layer, c.rout)
    THEN [err |-> "TypeError", val |-> <<>>, zeroed |-> FALSE,
          regime |-> "none", solve |-> 0]
    ELSE IF c.rin = 0
    THEN [err |-> "none", zeroed |-> FALSE, regime |-> "none", solve |-> 0,
          val |-> InnermostC(c.nu, c.TM)]
    ELSE IF c.nu = 0
    THEN Only({[err |-> t.err, zeroed |-> TRUE,
                regime |-> tetmRegime(layer, c.neff), solve |-> 2,
                val |-> IF t.err # "none" THEN <<>>
                        ELSE IF c.TM THEN <<t.val[1], t.val[2], <<RZero>>, <<RZero>> >>
                        ELSE << <<RZero>>, <<RZero>>, t.val[1], t.val[2] >>] :
               t \in {IF c.TM
                      THEN tetmConstants(layer, c, EH,
                                         RMul(Y0, R(get_maximum_index(layer)
                                                    * get_maximum_index(layer))),
                                         <<0, 3>>)
                      ELSE tetmConstants(layer, c, EH, RNeg(eta0), <<1, 2>>)}})
    ELSE Only({[err |-> v.err, zeroed |-> FALSE,
                regime |-> vRegime(layer, c.neff), solve |-> 4,
                val |-> IF v.err # "none" THEN <<>> ELSE v.val] :
               v \in {vConstants(layer, c, EH)}})

\* self.C added to instead of rebound
BindAccumulate(old, co) ==
    IF co.err # "none" THEN (IF co.zeroed THEN Zeros(4, 1) ELSE old)
    ELSE IF old # <<>> /\ Len(old[1]) = Len(co.val[1])
    THEN [r \in 1..4 |-> CAdd(old[r], co.val[r])]
    ELSE co.val

\* the value of self.C after lines 179-226: the assignments of lines 182,
\* 184, 186-188, 191, 196, 209 and 219 rebind or fill it; a raise before
\* them leaves the old value
Bind(old, co) ==
    IF co.err # "none" THEN (IF co.zeroed THEN Zeros(4, 1) ELSE old)
    ELSE co.val

Coefficients(layer, c, EH, old) ==
    Only({[err |-> co.err, val |-> Bind(old, co), regime |-> co.regime,
           solve |-> co.solve] : co \in {Computed(layer, c, EH)}})

\* EH_fields, lines 229-240: [c2, c3, c4, F3, F4]
Ratios(layer, c) ==
    LET n == get_maximum_index(layer)
        u == get_U_W_parameter(layer, c.rout, c.neff, c.wl)
        osc == EHRegime(layer, c.neff) = "JY"
        c1 == IF osc THEN RNorm(c.wl.k0 * c.rout, u)
              ELSE RNorm(-(c.wl.k0 * c.rout), u)
    IN  IF u = 0
        THEN Raise("ZeroDivisionError", <<>>)
        ELSE Return([F3 |-> IF osc THEN RDiv(jvp(c.nu, u), jn(c.nu, u))
                                   ELSE RDiv(ivp(c.nu, u), iv(c.nu, u)),
                     F4 |-> IF osc THEN RDiv(yvp(c.nu, u), yn(c.nu, u))
                                   ELSE RDiv(kvp(c.nu, u), kn(c.nu, u)),
                     c2 |-> RMul(RNorm(c.neff * c.nu, u), c1),
                     c3 |-> RMul(eta0, c1),
                     c4 |-> RMul(RMul(Y0, R(n * n)), c1)])

\* EH_fields, lines 242-245: the value stored in EH[k], read from self.C = C
Field(k, C, q) ==
    IF k = 0 THEN CAdd(C[1], C[2])
    ELSE IF k = 1 THEN CAdd(C[3], C[4])
    ELSE IF k = 2
    THEN CSub(CScale(q.c2, CAdd(C[1], C[2])),
              CScale(q.c3, CAdd(CScale(q.F3, C[3]), CScale(q.F4, C[4]))))
    ELSE CSub(CScale(q.c4, CAdd(CScale(q.F3, C[1]), CScale(q.F4, C[2]))),
              CScale(q.c2, CAdd(C[3], C[4])))

\* EH_fields run from start to end with nothing in between:
\* [err, C (self.C afterwards), EH (the buffer afterwards)]
EHFieldsAlone(layer, c, EH, old) ==
    LET co == Coefficients(layer, c, EH, old)
        q == Ratios(layer, c)
    IN  IF co.err # "none" THEN [err |-> co.err, C |-> co.val, EH |-> EH]
        ELSE IF q.err # "none" THEN [err |-> q.err, C |-> co.val, EH |-> EH]
        ELSE [err |-> "none", C |-> co.val,
              EH |-> [k \in 1..4 |-> Field(k - 1, co.val, q.val)]]

CallPsi ==
    /\ lpPc = "psi"
    /\ IF IndexUndefined(lpArgs.layer, lpArgs.radius)
       THEN lpPc' = "raised" /\ psiOut' = psiOut
       ELSE /\ psiOut' = Psi(lpArgs.layer, lpArgs.radius, lpArgs.neff, lpArgs.wl,
                             lpArgs.nu, lpArgs.C)
            /\ lpPc' = "lp"
    /\ UNCHANGED <<lpArgs, lpOut>>
    /\ UNCHANGED <<rsVars, enumVars, ehVars>>

CallLpConstants ==
    /\ lpPc = "lp"
    /\ lpOut' = lpConstants(lpArgs.layer, lpArgs.radius, lpArgs.neff, lpArgs.wl,
                            lpArgs.nu, psiOut)
    /\ lpPc' = "done"
    /\ UNCHANGED <<lpArgs, psiOut>>
    /\ UNCHANGED <<rsVars, enumVars, ehVars>>

-----------------------------------------------------------------------------
(* EH_fields as run by a caller t.  One step is a stretch of the method     *)
(* between two of its accesses to the attribute self.C: the lines that      *)
(* bind it (171-226), the local ratios (229-240), and each of the four      *)
(* statements that read it (242-245).                                       *)

\* the caller's buffers: shape (4,) for nu = 0, shape (4, 2) otherwise
Prescribed(nu) ==
    IF nu = 0 THEN << <<R(1)>>, <<R(2)>>, <<R(-1)>>, <<R(1)>> >>
    ELSE << <<R(1), R(0)>>, <<R(0), R(1)>>, <<R(-1), R(2)>>, <<R(1), R(1)>> >>

\* TM is read for nu = 0 only (lines 180-181, 190-192)
EHCalls ==
    {[rin |-> selfLayer.rin, rout |-> selfLayer.rout, nu |-> nu, neff |-> neff,
      wl |-> [k0 |-> 1], TM |-> tm] :
        nu \in {0, 1}, neff \in {3, 4, 5}, tm \in BOOLEAN} \
    {[rin |-> selfLayer.rin, rout |-> selfLayer.rout, nu |-> 1, neff |-> neff,
      wl |-> [k0 |-> 1], TM |-> FALSE] : neff \in {3, 4, 5}}

Finished(t, e, buf) ==
    seen' = Append(seen, [c |-> threads'[t].c, in |-> threads'[t].in,
                          err |-> e, EH |-> buf])

\* a buffer the caller can hand in again as it is: the entries of a reused
\* buffer are capped so that the exact fractions stay within the integers
MaxEntry == 1000
Reusable(buf) ==
    \A r \in 1..Len(buf) : \A j \in 1..Len(buf[r]) :
        Abs(buf[r][j][1]) <= MaxEntry /\ buf[r][j][2] <= MaxEntry

\* the call and lines 171-226
Enter(t) ==
    /\ threads[t].pc \in {"idle", "done"}
    /\ threads[t].budget > 0
    /\ \E c \in EHCalls : \E buf \in {Prescribed(c.nu), threads[t].EH} :
          /\ Len(buf[1]) = Len(Prescribed(c.nu)[1])
          /\ Reusable(buf)
          /\ \E co \in {Coefficients(selfLayer, c, buf, selfC)} :
                 /\ selfC' = co.val
                 /\ threads' = [threads EXCEPT ![t] =
                        [pc |-> IF co.err = "none" THEN "ratios" ELSE "done",
                         c |-> c, EH |-> buf, in |-> buf, q |-> <<>>, k |-> 0,
                         err |-> co.err, budget |-> threads[t].budget - 1,
                         mreg |-> co.regime, freg |-> "none",
                         solve |-> co.solve]]
                 /\ IF co.err = "none" THEN seen' = seen
                    ELSE Finished(t, co.err, buf)
    /\ UNCHANGED selfLayer
    /\ UNCHANGED <<rsVars, enumVars, lpVars>>

\* lines 229-240
ComputeRatios(t) ==
    /\ threads[t].pc = "ratios"
    /\ \E q \in {Ratios(selfLayer, threads[t].c)} :
           /\ threads' = [threads EXCEPT ![t].pc = IF q.err = "none" THEN "store"
                                                    ELSE "done",
                                          ![t].q = q.val,
                                          ![t].freg =
                                              EHRegime(selfLayer, threads[t].c.neff),
                                          ![t].err = q.err]
           /\ IF q.err = "none" THEN seen' = seen
              ELSE Finished(t, q.err, threads[t].EH)
    /\ UNCHANGED <<selfLayer, selfC>>
    /\ UNCHANGED <<rsVars, enumVars, lpVars>>

\* EH[k] = value for a row of w entries: a scalar is broadcast over the row, a
\* row cannot be stored in a scalar ("setting an array element with a sequence")
SetItem(w, value) ==
    IF Len(value) = w THEN Return(value)
    ELSE IF Len(value) = 1 THEN Return([j \in 1..w |-> value[1]])
    ELSE Raise("ValueError", value)

\* one of lines 242-245, then line 247 after the last
Store(t) ==
    /\ threads[t].pc = "store"
    /\ LET me == threads[t]
           st == SetItem(Len(me.EH[1]), Field(me.k, selfC, me.q))
           buf == IF st.err = "none" THEN [me.EH EXCEPT ![me.k + 1] = st.val]
                  ELSE me.EH
           over == st.err # "none" \/ me.k = 3
       IN  /\ threads' = [threads EXCEPT ![t].EH = buf,
                                          ![t].k = IF over THEN me.k ELSE me.k + 1,
                                          ![t].pc = IF over THEN "done" ELSE "store",
                                          ![t].err = st.err]
           /\ IF over THEN Finished(t, st.err, buf) ELSE seen' = seen
    /\ UNCHANGED <<selfLayer, selfC>>
    /\ UNCHANGED <<rsVars, enumVars, lpVars>>

Idle(n) == [pc |-> "idle", c |-> <<>>, EH |-> Prescribed(0), in |-> <<>>,
            q |-> <<>>, k |-> 0, err |-> "none", budget |-> n,
            mreg |-> "none", freg |-> "none", solve |-> 0]

NoEH ==
    /\ selfLayer = [n |-> 5, rin |-> 0, rout |-> 1]
    /\ selfC = <<>>
    /\ threads = <<Idle(0)>>
    /\ seen = <<>>

LpLayers == {[n |-> 5, rin |-> 0, rout |-> 1], [n |-> 4, rin |-> 1, rout |-> 2]}

NoLp ==
    /\ lpArgs = [layer |-> [n |-> 5, rin |-> 0, rout |-> 1], radius |-> 1,
                 neff |-> 4, wl |-> [k0 |-> 1], nu |-> 0, C |-> <<ROne, RZero>>]
    /\ lpPc = "idle"
    /\ psiOut = <<RZero, RZero>>
    /\ lpOut = <<RZero, RZero>>

-----------------------------------------------------------------------------
(* The calls explored.  Indices are scaled so that the lowest and highest   *)
(* layer index are 100 and 300; every sample of a scan is then an integer.  *)
RootCandidates == {100, 151, 200, 220, 251, 300}
PoleCandidates == {175, 201}

Functions ==
    {[s |-> s, roots |-> rs, poles |-> ps] :
        s \in {1, -1},
        rs \in {S \in SUBSET RootCandidates : Cardinality(S) <= 2},
        ps \in {S \in SUBSET PoleCandidates : Cardinality(S) <= 1}}

\* [lo, hi, d, pts, m, inf]
Arg(lo, hi, d, pts, m, inf) ==
    [lo |-> lo, hi |-> hi, d |-> d, pts |-> pts, m |-> m, inf |-> inf]

BoundedCalls ==
    {Arg(e[1], e[2], d, <<>>, 0, TRUE) :
        e \in {<<100, 300>>, <<300, 100>>}, d \in {200, 20, 2, -200, -20, -2}}
    \cup
    {Arg(100, 300, d, p, 0, TRUE) :
        d \in {200, 20, -20}, p \in {<<150>>, <<150, 260>>, <<350>>, <<50, 300>>}}
    \cup
    {Arg(300, 100, d, p, 0, TRUE) :
        d \in {-200, -20, 20}, p \in {<<250>>, <<250, 140>>, <<50>>, <<350, 100>>}}

UnboundedCalls ==
    {Arg(lo, 0, d, p, m, inf) :
        lo \in {100, 300}, d \in {20, -20}, p \in {<<>>, <<150>>},
        m \in {5}, inf \in BOOLEAN}

Calls == BoundedCalls \cup UnboundedCalls

InitCall(f, c) ==
    /\ fn = f
    /\ lowbound = c.lo
    /\ highbound = c.hi
    /\ ipoints = c.pts
    /\ delta0 = c.d
    /\ level = 0
    /\ maxiter = c.m
    /\ maxiterInf = c.inf
    /\ pc = "head"
    /\ i = 0
    /\ a = 0 /\ fa = <<0, 1>>
    /\ b = 0 /\ fb = <<0, 1>>
    /\ z = 0 /\ fz = <<0, 1>>
    /\ ret = NaN
    /\ cause = "none"
    /\ brk = NoBrk
    /\ missed = FALSE
    /\ passes = <<>>
    /\ defaultIpoints = <<>>
    /\ omitted = (c.pts = <<>>)
    /\ supplied = c.pts
    /\ taken = <<>>
    /\ evaluated = <<>>
    /\ ncalls = 1

NoEnum ==
    /\ fams = <<>>
    /\ fam = 0
    /\ topbound = 0
    /\ modes = <<>>
    /\ allModes = <<>>

Init == (\E f \in Functions, c \in Calls : InitCall(f, c)) /\ NoEnum /\ NoLp /\ NoEH

-----------------------------------------------------------------------------
(* Enumeration of modes: one root search per radial order, each scanning    *)
(* downward from just below the root before it; a family ends when a search *)
(* returns NaN.  The overall list is kept by decreasing effective index.    *)

\* the nearest sample-grid point below a root r
BelowRoot(r) == IF r % 2 = 0 THEN r - 2 ELSE r - 1

RECURSIVE InsertDesc(_, _)
InsertDesc(list, e) ==
    IF list = <<>> THEN <<e>>
    ELSE IF Head(list).neff >= e.neff
         THEN <<Head(list)>> \o InsertDesc(Tail(list), e)
         ELSE <<e>> \o list

\* a fresh call of find_function_first_root from lowbound lo
Restart(f, lo) ==
    /\ fn' = f
    /\ lowbound' = lo
    /\ level' = 0
    /\ pc' = "head"
    /\ i' = 0
    /\ a' = 0 /\ fa' = <<0, 1>>
    /\ b' = 0 /\ fb' = <<0, 1>>
    /\ z' = 0 /\ fz' = <<0, 1>>
    /\ ret' = NaN
    /\ cause' = "none"
    /\ brk' = NoBrk
    /\ passes' = <<>>
    /\ maxiter' = 0
    /\ maxiterInf' = TRUE
    /\ UNCHANGED <<highbound, ipoints, delta0, missed>>

\* a root was returned: it is the mode of the next radial order
RecordMode ==
    /\ fam > 0
    /\ pc = "done"
    /\ ~ret.nan
    /\ modes' = Append(modes, ret.val)
    /\ allModes' = InsertDesc(allModes, [fam |-> fam, order |-> Len(modes) + 1,
                                         neff |-> ret.val])
    /\ IF Len(modes) + 1 < MaxOrders
       THEN Restart(fn, BelowRoot(ret.val))
       ELSE /\ pc' = "famdone"
            /\ UNCHANGED <<fn, lowbound, highbound, ipoints, delta0, level,
                           maxiter, maxiterInf, i, a, fa, b, fb, z, fz, ret,
                           cause, brk, missed, passes>>
    /\ UNCHANGED <<fams, fam, topbound>>
    /\ UNCHANGED <<lpVars, ehVars, callVars>>

\* NaN: no further mode in this family
EndFamily ==
    /\ fam > 0
    /\ pc = "done"
    /\ ret.nan
    /\ pc' = "famdone"
    /\ UNCHANGED <<fn, lowbound, highbound, ipoints, delta0, level, maxiter,
                   maxiterInf, i, a, fa, b, fb, z, fz, ret, cause, brk, missed,
                   passes>>
    /\ UNCHANGED <<enumVars, lpVars, ehVars, callVars>>

NextFamily ==
    /\ fam > 0
    /\ pc = "famdone"
    /\ fam < Len(fams)
    /\ fam' = fam + 1
    /\ modes' = <<>>
    /\ Restart(fams[fam + 1], topbound)
    /\ UNCHANGED <<fams, topbound, allModes>>
    /\ UNCHANGED <<lpVars, ehVars, callVars>>

EnumFunctions ==
    {[s |-> 1, roots |-> {441, 401}, poles |-> {421}],
     [s |-> -1, roots |-> {500, 460}, poles |-> {}],
     [s |-> 1, roots |-> {460, 441, 360}, poles |-> {}],
     [s |-> -1, roots |-> {441}, poles |-> {381}],
     [s |-> 1, roots |-> {480, 401}, poles |-> {441}],
     [s |-> 1, roots |-> {}, poles |-> {}]}

InitEnum ==
    \E f1 \in EnumFunctions, f2 \in EnumFunctions, d \in {-2, -20, -200} :
        /\ InitCall(f1, Arg(500, 100, d, <<>>, 0, TRUE))
        /\ fams = <<f1, f2>>
        /\ fam = 1
        /\ topbound = 500
        /\ modes = <<>>
        /\ allModes = <<>>
        /\ NoLp
        /\ NoEH

NextEnum == LoopHead \/ ForStep \/ ForEnd \/ RecordMode \/ EndFamily \/ NextFamily

SpecEnum == InitEnum /\ [][NextEnum]_vars

Next == LoopHead \/ ForStep \/ ForEnd

Spec == Init /\ [][Next]_vars

-----------------------------------------------------------------------------
(* Successive calls of find_function_first_root on one solver: a call that  *)
(* omits ipoints works on the list object of the default, a call that       *)
(* passes a list works on that list.                                        *)
MaxSearches == 2

SeqFunctions ==
    {[s |-> 1, roots |-> rs, poles |-> {}] : rs \in {{}, {151}, {220}, {300}}}

SeqCalls ==
    {Arg(100, 0, 20, p, 5, FALSE) : p \in {<<>>, <<150>>, <<150, 260>>}}
    \cup
    {Arg(100, 300, 200, p, 0, TRUE) :
        p \in {<<>>, <<350>>, <<150, 350, 200>>, <<150, 260>>}}

\* the next call, after the previous one returned or raised
NewCall ==
    /\ pc \in {"done", "raised"}
    /\ ncalls < MaxSearches
    /\ \E c \in SeqCalls :
          /\ lowbound' = c.lo
          /\ highbound' = c.hi
          /\ omitted' = (c.pts = <<>>)
          /\ ipoints' = IF c.pts = <<>> THEN defaultIpoints ELSE c.pts
          /\ supplied' = ipoints'
          /\ delta0' = c.d
          /\ maxiter' = c.m
          /\ maxiterInf' = c.inf
    /\ level' = 0
    /\ pc' = "head"
    /\ i' = 0
    /\ a' = 0 /\ fa' = <<0, 1>>
    /\ b' = 0 /\ fb' = <<0, 1>>
    /\ z' = 0 /\ fz' = <<0, 1>>
    /\ ret' = NaN
    /\ cause' = "none"
    /\ brk' = NoBrk
    /\ passes' = <<>>
    /\ taken' = <<>>
    /\ evaluated' = <<>>
    /\ ncalls' = ncalls + 1
    /\ UNCHANGED <<fn, missed, defaultIpoints>>
    /\ UNCHANGED <<enumVars, lpVars, ehVars>>

InitCalls == (\E f \in SeqFunctions, c \in SeqCalls : InitCall(f, c)) /\ NoEnum /\ NoLp /\ NoEH

NextCalls == LoopHead \/ ForStep \/ ForEnd \/ NewCall

SpecCalls == InitCalls /\ [][NextCalls]_vars

\* C13: the list of the default ipoints is empty after any sequence of calls,
\* and a returned call's list has lost exactly the candidate points the
\* function was sampled at, in order from its front.
C13_LostExactlySampled ==
    /\ defaultIpoints = <<>>
    /\ pc = "done" => supplied = evaluated \o ipoints

\* C13, as the code has it: the list of the default ipoints is always empty
\* and a call that omits ipoints pops nothing; a caller's list has lost
\* exactly the points popped from its front, in order; the function was
\* sampled at each of them, except at a last one popped and found past
\* highbound, on which the call returns NaN.
C13_LostExactlyPopped ==
    /\ defaultIpoints = <<>>
    /\ omitted => (ipoints = <<>> /\ taken = <<>>)
    /\ supplied = taken \o ipoints
    /\ \/ evaluated = taken
       \/ /\ pc = "done" /\ cause = "pastbound" /\ ret.nan
          /\ taken = Append(evaluated, b)

\* a second call with a caller's list that sampled its first point, popped
\* its second, found it past highbound and returned, leaving the third
C13_Witness ==
    /\ ncalls = 2
    /\ pc = "done"
    /\ ~omitted
    /\ Len(taken) = 2
    /\ Len(evaluated) = 1
    /\ ipoints # <<>>


\* no root search in progress
NoSearch ==
    /\ fn = [s |-> 1, roots |-> {}, poles |-> {}]
    /\ lowbound = 0
    /\ highbound = 0
    /\ ipoints = <<>>
    /\ delta0 = 0
    /\ level = 0
    /\ maxiter = 0
    /\ maxiterInf = TRUE
    /\ pc = "idle"
    /\ i = 0
    /\ a = 0 /\ fa = <<0, 1>>
    /\ b = 0 /\ fb = <<0, 1>>
    /\ z = 0 /\ fz = <<0, 1>>
    /\ ret = NaN
    /\ cause = "none"
    /\ brk = NoBrk
    /\ missed = FALSE
    /\ passes = <<>>
    /\ defaultIpoints = <<>>
    /\ omitted = TRUE
    /\ supplied = <<>>
    /\ taken = <<>>
    /\ evaluated = <<>>
    /\ ncalls = 0

InitLp ==
    /\ \E layer \in LpLayers, radius \in {1, 2, 3}, neff \in {3, 4, 5},
          wk \in {1, 2}, nu \in {0, 1}, c0 \in -1..2, c1 \in -1..2 :
          lpArgs = [layer |-> layer, radius |-> radius, neff |-> neff,
                    wl |-> [k0 |-> wk], nu |-> nu, C |-> <<R(c0), R(c1)>>]
    /\ lpPc = "psi"
    /\ psiOut = <<RZero, RZero>>
    /\ lpOut = <<RZero, RZero>>
    /\ NoSearch
    /\ NoEnum
    /\ NoEH

NextLp == CallPsi \/ CallLpConstants

SpecLp == InitLp /\ [][NextLp]_vars

\* C4: lpConstants applied to the (psi, psip) that Psi returns for the
\* coefficient pair C, at the same radius, index and order, returns C.
C4_RoundTrip == lpPc = "done" => lpOut = lpArgs.C

-----------------------------------------------------------------------------
(* Properties of find_function_first_root.                                  *)

Returned == pc = "done" /\ ~ret.nan
Bounded == highbound # 0
MinIndex == IF lowbound < highbound THEN lowbound ELSE highbound
MaxIndex == IF lowbound < highbound THEN highbound ELSE lowbound
Attenuates(k) == AbsLess(k.fz, k.fa) /\ AbsLess(k.fz, k.fb)

\* C1: a refined point z of a bracket (a, b) is returned only if
\* |f(z)| < |f(a)| and |f(z)| < |f(b)|; a bracket failing that test is left
\* behind and the scan goes on from b; so no returned value is a pole of the
\* function (functions with a simple pole between two roots included).
C1_DiscontinuityRejected ==
    /\ [](cause = "bracket" => (ret = Val(brk.z) /\ Attenuates(brk)))
    /\ [][(brk'.n # brk.n /\ ~Attenuates(brk'))
            => (pc' = "for" /\ a' = brk'.b /\ fa' = brk'.fb /\ i' = i + 1)]_vars
    /\ [](Returned => ret.val \notin fn.poles)

\* the pole between the roots 151 and 251 was refined and rejected, and a later
\* bracket gave a root
C1_Witness ==
    /\ fn.roots = {151, 251} /\ fn.poles = {201}
    /\ brk.n >= 2
    /\ cause = "bracket"
    /\ ret.val \in fn.roots

\* C5: with lowbound and highbound the lowest and highest layer index, every
\* value returned lies strictly between the two bounds.
C5_StrictlyInside ==
    (Returned /\ Bounded) => (MinIndex < ret.val /\ ret.val < MaxIndex)

\* C7 as stated: in a bounded domain NaN is returned only after a scan of at
\* least IterCap steps was exhausted (every earlier failure reduces delta).
C7_NaNOnlyAfterCap ==
    (Bounded /\ pc = "done" /\ ret.nan)
        => (cause = "maxiter" /\ maxiter >= IterCap /\ i > maxiter)

\* C7 amended: in a bounded domain, a for loop exhausted with maxiter < 100
\* divides delta by ten and restarts the scan from lowbound; a sample beyond
\* highbound returns NaN at once, delta unchanged; NaN is returned only in
\* these two ways: a sample beyond highbound, or an exhausted scan of at
\* least 100 steps.
C7_ReduceOrFail ==
    /\ []((Bounded /\ pc = "done" /\ ret.nan)
            => \/ cause = "pastbound" /\ PastBound(b, lowbound, highbound)
               \/ cause = "maxiter" /\ maxiter >= IterCap /\ i > maxiter)
    /\ [][(Bounded /\ pc = "for" /\ i > maxiter /\ maxiter < IterCap /\ pc' # pc)
            => (pc' = "head" /\ level' = level + 1 /\ delta0' = delta0)]_vars
    /\ [][(pc = "head" /\ pc' = "for") => (a' = lowbound /\ i' = 1)]_vars
    /\ [][(Bounded /\ pc = "for" /\ i <= maxiter
            /\ PastBound(NextSample(ipoints, a, Delta), lowbound, highbound))
            => (pc' = "done" /\ ret'.nan /\ level' = level)]_vars

\* two reductions of delta, then a scan of at least 100 steps that fails
C7_Witness ==
    /\ Bounded /\ pc = "done" /\ ret.nan /\ cause = "maxiter"
    /\ level = 2 /\ Len(passes) = 3 /\ passes[1].maxiter < IterCap

\* C8: a call with a bounded domain, highbound # lowbound and delta # 0 ends
\* by returning a root or NaN, whatever the sign of delta: it never ends
\* otherwise.
C8_AlwaysReturns ==
    (Bounded /\ highbound # lowbound /\ delta0 # 0) => pc # "raised"

\* C9: the first point owed in scan order is the one returned: a sample with
\* f = 0 is returned at once and without refinement, and no sample with
\* f = 0, nor a bracket passing the discontinuity test, is passed over.
C9_FirstAccepted ==
    /\ [](~missed)
    /\ [][(pc = "for" /\ i <= maxiter
            /\ ~PastBound(NextSample(ipoints, a, Delta), lowbound, highbound)
            /\ IsZero(F(fn, NextSample(ipoints, a, Delta))))
            => (pc' = "done" /\ ret' = Val(NextSample(ipoints, a, Delta))
                /\ brk' = brk)]_vars
    /\ [][(pc = "head" /\ IsZero(F(fn, lowbound)) /\ pc' # pc /\ pc' # "raised")
            => (pc' = "done" /\ ret' = Val(lowbound) /\ brk' = brk)]_vars

\* a scan sample (not the low bound) with f = 0 was returned after earlier
\* samples and a rejected bracket
C9_Witness ==
    /\ cause = "samplezero" /\ ret = Val(b) /\ IsZero(fb)
    /\ brk.n >= 1 /\ ~Attenuates(brk) /\ i >= 2

\* every step taken with a + delta lands on the integer grid
-----------------------------------------------------------------------------
(* EH_fields called repeatedly by one caller, and called once by each of    *)
(* two callers that share the layer object.                                 *)
MaxCalls == 3

InitLayer ==
    /\ selfLayer \in LpLayers
    /\ selfC = <<>>
    /\ threads = <<Idle(MaxCalls)>>
    /\ seen = <<>>
    /\ NoSearch
    /\ NoEnum
    /\ NoLp

InitConc ==
    /\ selfLayer \in LpLayers
    /\ selfC = <<>>
    /\ threads = <<Idle(1), Idle(1)>>
    /\ seen = <<>>
    /\ NoSearch
    /\ NoEnum
    /\ NoLp

NextLayer ==
    \/ \E t \in DOMAIN threads : Enter(t)
    \/ \E t \in DOMAIN threads : ComputeRatios(t)
    \/ \E t \in DOMAIN threads : Store(t)

SpecLayer == InitLayer /\ [][NextLayer]_vars

SpecConc == InitConc /\ [][NextLayer]_vars

\* the radial argument u of the call c on the layer object
UofCall(c) == get_U_W_parameter(selfLayer, c.rout, c.neff, c.wl)

\* C2: when the radial argument u of the layer is exactly 0, an evaluation of
\* EH_fields (with the vConstants or tetmConstants it calls) does not end in
\* an error: no division by zero is performed.
C2_NoErrorAtZero ==
    \A t \in DOMAIN threads :
        (threads[t].pc = "done" /\ UofCall(threads[t].c) = 0)
            => threads[t].err = "none"

\* C3: under every interleaving of two evaluations of EH_fields on the same
\* layer object, each with a buffer of its own, a finished evaluation has the
\* outcome and the EH it produces when it runs alone.
C3_NoInterference ==
    \A t \in DOMAIN threads :
        threads[t].pc = "done"
            => LET alone == EHFieldsAlone(selfLayer, threads[t].c, threads[t].in, <<>>)
               IN  threads[t].err = alone.err /\ threads[t].EH = alone.EH

\* C10: two evaluations of EH_fields by one caller with identical inputs (the
\* layer, radii, nu, neff, wavelength, TM and the values of the prescribed
\* field vector EH) have the identical outcome and resulting EH, whatever
\* the earlier evaluations left in self.C and in the buffer.
C10_Idempotent ==
    \A x, y \in 1..Len(seen) :
        (seen[x].c = seen[y].c /\ seen[x].in = seen[y].in)
            => (seen[x].err = seen[y].err /\ seen[x].EH = seen[y].EH)

\* a ring layer evaluated, then evaluated with other inputs, then evaluated
\* with the inputs of the first time over what the second left behind, all
\* three returning
C10_Witness ==
    /\ Len(seen) = 3
    /\ seen[1].c = seen[3].c
    /\ seen[1].in = seen[3].in
    /\ seen[2].c # seen[1].c
    /\ seen[2].EH # seen[1].EH
    /\ seen[1].c.rin # 0
    /\ \A x \in 1..3 : seen[x].err = "none"
    /\ seen[1].EH # seen[1].in

\* the trial indices below, at and above the indices of the layers
RegimeIndices == 3..6

\* C11: every layer routine selects the oscillatory pair (J, Y) exactly when
\* neff < the layer's index and the evanescent pair (I, K) exactly when
\* neff >= it (the tie included), and within one evaluation of EH_fields the
\* pair selected to build the boundary matrix is the pair selected to
\* compute the fields.
C11_SameRegime ==
    /\ \A L \in LpLayers : \A neff \in RegimeIndices :
          /\ (PsiRegime(L, neff) = "JY") <=> (neff < get_maximum_index(L))
          /\ (lpRegime(L, neff) = "JY") <=> (neff < get_maximum_index(L))
    /\ \A t \in DOMAIN threads :
          /\ threads[t].mreg # "none"
                => ((threads[t].mreg = "JY")
                        <=> (threads[t].c.neff < get_maximum_index(selfLayer)))
          /\ threads[t].freg # "none"
                => ((threads[t].freg = "JY")
                        <=> (threads[t].c.neff < get_maximum_index(selfLayer)))
          /\ (threads[t].mreg # "none" /\ threads[t].freg # "none")
                => threads[t].mreg = threads[t].freg

\* an evaluation on a ring layer with neff above the layer's index that built
\* its matrix and computed its fields, both with the evanescent pair
C11_Witness ==
    /\ threads[1].pc = "done"
    /\ threads[1].err = "none"
    /\ threads[1].c.rin # 0
    /\ threads[1].c.neff > get_maximum_index(selfLayer)
    /\ threads[1].mreg = "IK"
    /\ threads[1].freg = "IK"

\* C12: for the innermost layer (radius_in = 0) EH_fields solves no linear
\* system and self.C is [1,0,0,0] (nu = 0, TM), [0,0,1,0] (nu = 0, TE) or the
\* 4x2 array whose only non-zero entries are C[0,0] = 1 and C[2,1] = 1
\* (nu # 0), rows 1 and 3 being zero; for a layer with radius_in > 0 the
\* coefficients come from the 2x2 solve (nu = 0) or the 4x4 solve (nu # 0).
C12_InnermostDirect ==
    \A t \in DOMAIN threads :
        threads[t].pc # "idle" =>
            LET c == threads[t].c
            IN  /\ c.rin = 0 =>
                    /\ threads[t].solve = 0
                    /\ \A j \in 1..Len(selfC[1]) :
                          RIsZero(selfC[2][j]) /\ RIsZero(selfC[4][j])
                    /\ (c.nu = 0 /\ c.TM) => selfC = <<<<R(1)>>, <<R(0)>>, <<R(0)>>, <<R(0)>>>>
                    /\ (c.nu = 0 /\ ~c.TM) => selfC = <<<<R(0)>>, <<R(0)>>, <<R(1)>>, <<R(0)>>>>
                    /\ c.nu # 0 => selfC = << <<R(1), R(0)>>, <<R(0), R(0)>>,
                                             <<R(0), R(1)>>, <<R(0), R(0)>> >>
                /\ c.rin > 0 =>
                    threads[t].solve = (IF c.nu = 0 THEN 2 ELSE 4)

\* an evaluation with nu # 0 on the innermost layer that has returned
C12_Witness ==
    /\ threads[1].pc = "done"
    /\ threads[1].err = "none"
    /\ threads[1].c.rin = 0
    /\ threads[1].c.nu # 0
    /\ threads[1].solve = 0
    /\ Len(selfC[1]) = 2

GridExact == (pc = "for" /\ i <= maxiter /\ ipoints = <<>>) => Delta * Pow10(level) = delta0

=============================================================================
